---- MODULE Spec2Model ----
(***************************************************************************)
(* A model of the go-resvg binding (package resvg): the Go wrapper around  *)
(* the resvg C API.  The model covers the wrapper's own logic: the         *)
(* premultiplied-to-straight alpha pass, the fit-and-letterbox transform   *)
(* of RenderScaledToSize (in IEEE-754 binary64/binary32 arithmetic), the   *)
(* error-code mapping, and the life cycle of the foreign handles held by   *)
(* Options and RenderTree (explicit destroy, deferred destroy, finalizer), *)
(* the string setters of Options, the calls that hand a handle to the      *)
(* engine taken step by step by several goroutines next to the garbage     *)
(* collector (SpecPar), and the svg2png example program (SpecCli).         *)
(* The engine behind the C API is an opaque collaborator: each foreign     *)
(* call is a nondeterministic choice over the results its signature allows.*)
(***************************************************************************)
EXTENDS Integers, Sequences, FiniteSets, TLC

VARIABLES
    conv,       \* SpecConv: the image handed to convertFromPremultiplied
    fit,        \* SpecFit: the inputs and result of the transform synthesis
    opts,       \* Go heap: Options objects, id -> [cOpts]
    trees,      \* Go heap: RenderTree objects, id -> [cTree]
    held,       \* object ids the caller still references
    finalizers, \* object ids with a finalizer registered and not yet run
    engine,     \* foreign side: handle -> [kind, destroys, ...]
    calls,      \* trace of the last operation: foreign calls, SetFinalizer,
                \* the alpha pass, in order
    ret,        \* what the last operation returned to its caller
    frames,     \* SpecPar: per caller, the call it is in and how far it got
    bufs,       \* SpecPar: Go heap, the pixel buffers allocated so far
    ncalls,     \* SpecPar: number of calls started so far
    cli         \* SpecCli: the svg2png process, its arguments and its outcome

vars == <<conv, fit, opts, trees, held, finalizers, engine, calls, ret,
          frames, bufs, ncalls, cli>>

stepVars == <<frames, bufs, ncalls>>

lifeVars == <<opts, trees, held, finalizers, engine, calls, ret>>

(***************************************************************************)
(* Small helpers                                                           *)
(***************************************************************************)
Min(a, b) == IF a <= b THEN a ELSE b

Max(a, b) == IF a >= b THEN a ELSE b

Zeros(n) == [i \in 1..n |-> 0]

(***************************************************************************)
(* image.RGBA as the wrapper uses it: a w x h rectangle at the origin,     *)
(* Stride = 4*w, Pix a sequence of 4*w*h bytes (Pix[i] of the source is    *)
(* Pix[i+1] here).  All uint32 arithmetic of the alpha pass stays below    *)
(* 255*255, so the 32-bit width never wraps.                               *)
(***************************************************************************)
MaxByte == 255

Bytes == 0..MaxByte

\* image.NewRGBA(image.Rect(0, 0, w, h)); nil marks the nil *image.RGBA
NewRGBA(w, h) == [nil |-> FALSE, w |-> w, h |-> h, Pix |-> Zeros(4 * w * h)]

NilImage == [nil |-> TRUE, w |-> 0, h |-> 0, Pix |-> <<>>]

PixOffset(img, x, y) == y * (4 * img.w) + x * 4

\* A variant of the per-pixel step that also clears the colour of fully
\* transparent pixels.
convertPixelClearing(Pix, i) ==
    LET a == Pix[i + 4]
        un(c) == IF (c * 255) \div a > 255 THEN 255 ELSE (c * 255) \div a
    IN  IF a = 0
        THEN [Pix EXCEPT ![i + 1] = 0, ![i + 2] = 0, ![i + 3] = 0]
        ELSE IF a # 255
        THEN [Pix EXCEPT ![i + 1] = un(Pix[i + 1]),
                         ![i + 2] = un(Pix[i + 2]),
                         ![i + 3] = un(Pix[i + 3])]
        ELSE Pix

\* A variant of the per-pixel step with a copy-paste slip: the green
\* channel is computed from the red one.
convertPixelCopyPaste(Pix, i) ==
    LET a == Pix[i + 4]
        un(c) == IF (c * 255) \div a > 255 THEN 255 ELSE (c * 255) \div a
    IN  IF a # 0 /\ a # 255
        THEN [Pix EXCEPT ![i + 1] = un(Pix[i + 1]),
                         ![i + 2] = un(Pix[i + 1]),
                         ![i + 3] = un(Pix[i + 3])]
        ELSE Pix

\* A variant of the per-pixel step without the clamp to 255 (the byte
\* store then keeps the low eight bits).
convertPixelUnclamped(Pix, i) ==
    LET a == Pix[i + 4]
        un(c) == ((c * 255) \div a) % (MaxByte + 1)
    IN  IF a # 0 /\ a # 255
        THEN [Pix EXCEPT ![i + 1] = un(Pix[i + 1]),
                         ![i + 2] = un(Pix[i + 2]),
                         ![i + 3] = un(Pix[i + 3])]
        ELSE Pix

\* The body of the loop of convertFromPremultiplied for the pixel at byte
\* offset i: read r,g,b,a; unpremultiply and clamp unless a is 0 or 255.
convertPixel(Pix, i) ==
    LET r == Pix[i + 1]
        g == Pix[i + 2]
        b == Pix[i + 3]
        a == Pix[i + 4]
        r1 == (r * 255) \div a
        g1 == (g * 255) \div a
        b1 == (b * 255) \div a
        r2 == IF r1 > 255 THEN 255 ELSE r1
        g2 == IF g1 > 255 THEN 255 ELSE g1
        b2 == IF b1 > 255 THEN 255 ELSE b1
    IN  IF a # 0 /\ a # 255
        THEN [Pix EXCEPT ![i + 1] = r2, ![i + 2] = g2, ![i + 3] = b2]
        ELSE Pix

\* The two nested loops, rows then columns, from pixel number n on.
RECURSIVE convertFrom(_, _, _)
convertFrom(img, Pix, n) ==
    IF n >= img.w * img.h
    THEN Pix
    ELSE convertFrom(img,
                     convertPixel(Pix, PixOffset(img, n % img.w, n \div img.w)),
                     n + 1)

convertFromPremultiplied(img) == [img EXCEPT !.Pix = convertFrom(img, img.Pix, 0)]

(***************************************************************************)
(* IEEE-754 arithmetic.  A finite value is [s, m, e]: sign s in {-1,0,1},  *)
(* m the significand as a sequence of bits, most significant first, with   *)
(* first and last bit 1, and e the exponent of its last bit, so the value  *)
(* is s * m * 2^e.  The form is canonical: equal values are equal records. *)
(* An operation computes the exact result and rounds it to the precision   *)
(* of its type, to nearest, ties to even.  The magnitudes reached from the *)
(* bounded inputs stay far inside the exponent range of both formats, so   *)
(* overflow, underflow, infinities and NaN do not arise.                   *)
(***************************************************************************)
Float64Precision == 53

Float32Precision == 24

FZero == [s |-> 0, m |-> <<>>, e |-> 0]

\* The w-bit binary numeral of n, 0 <= n < 2^w, w <= 30.
BitsW(n, w) == [i \in 1..w |-> (n \div (2 ^ (w - i))) % 2]

\* The value of a numeral of at most 30 bits.
RECURSIVE BitsVal(_)
BitsVal(b) ==
    IF Len(b) = 0 THEN 0 ELSE 2 * BitsVal(SubSeq(b, 1, Len(b) - 1)) + b[Len(b)]

\* Position of the first and of the last 1 bit (0 when there is none).
FirstOne(b) ==
    IF \A i \in 1..Len(b) : b[i] = 0
    THEN 0
    ELSE CHOOSE i \in 1..Len(b) : b[i] = 1 /\ \A j \in 1..(i - 1) : b[j] = 0

LastOne(b) ==
    IF \A i \in 1..Len(b) : b[i] = 0
    THEN 0
    ELSE CHOOSE i \in 1..Len(b) : b[i] = 1 /\ \A j \in (i + 1)..Len(b) : b[j] = 0

StripLead(b) == IF FirstOne(b) = 0 THEN <<>> ELSE SubSeq(b, FirstOne(b), Len(b))

Bits(n) == StripLead(BitsW(n, 30))

Canon(s, m, e) ==
    LET f == FirstOne(m)
        l == LastOne(m)
    IN  IF f = 0 \/ s = 0
        THEN FZero
        ELSE [s |-> s, m |-> SubSeq(m, f, l), e |-> e + (Len(m) - l)]

PadLeft(b, n) == Zeros(n - Len(b)) \o b

\* Binary addition of two numerals of the same length n: the carry into
\* position i comes from the nearest position to its right that generates
\* one, through positions that all propagate it.
AddSame(x, y, n) ==
    LET carry(i) == \E j \in (i + 1)..n :
                        /\ x[j] = 1 /\ y[j] = 1
                        /\ \A k \in (i + 1)..(j - 1) : x[k] # y[k]
        bit(i) == (x[i] + y[i] + (IF carry(i) THEN 1 ELSE 0)) % 2
    IN  (IF carry(0) THEN <<1>> ELSE <<>>) \o [i \in 1..n |-> bit(i)]

AddBits(x, y) ==
    LET n == Max(Len(x), Len(y))
    IN  AddSame(PadLeft(x, n), PadLeft(y, n), n)

\* x - y for x >= y, same length n, with the borrow found the same way.
SubSame(x, y, n) ==
    LET borrow(i) == \E j \in (i + 1)..n :
                         /\ x[j] = 0 /\ y[j] = 1
                         /\ \A k \in (i + 1)..(j - 1) : x[k] = y[k]
    IN  [i \in 1..n |-> (2 + x[i] - y[i] - (IF borrow(i) THEN 1 ELSE 0)) % 2]

SubBits(x, y) ==
    LET n == Max(Len(x), Len(y))
    IN  SubSame(PadLeft(x, n), PadLeft(y, n), n)

\* -1, 0, 1 as x < y, x = y, x > y, for numerals of the same length n
CmpSame(x, y, n) ==
    IF \A i \in 1..n : x[i] = y[i]
    THEN 0
    ELSE LET d == CHOOSE i \in 1..n : x[i] # y[i] /\ \A j \in 1..(i - 1) : x[j] = y[j]
         IN  IF x[d] > y[d] THEN 1 ELSE -1

CmpBits(x, y) ==
    LET n == Max(Len(x), Len(y))
    IN  CmpSame(PadLeft(x, n), PadLeft(y, n), n)

\* Shift-and-add product; y is the multiplier.
RECURSIVE MulAcc(_, _, _, _)
MulAcc(x, y, i, acc) ==
    IF i > Len(y)
    THEN acc
    ELSE MulAcc(x, y, i + 1,
                IF y[i] = 1 THEN AddBits(Append(acc, 0), x) ELSE Append(acc, 0))

MulBits(x, y) == IF Len(y) <= Len(x) THEN MulAcc(x, y, 1, <<>>) ELSE MulAcc(y, x, 1, <<>>)

\* Round a canonical exact value to p significant bits, ties to even.
RoundTo(p, f) ==
    IF Len(f.m) <= p
    THEN f
    ELSE LET keep == SubSeq(f.m, 1, p)
             rest == SubSeq(f.m, p + 1, Len(f.m))
             up   == rest[1] = 1 /\ (Len(rest) > 1 \/ keep[p] = 1)
         IN  Canon(f.s, IF up THEN AddBits(keep, <<1>>) ELSE keep, f.e + Len(rest))

FNeg(a) == [a EXCEPT !.s = -a.s]

\* The exact sum of two values.
FAddExact(a, b) ==
    IF a.s = 0 THEN b
    ELSE IF b.s = 0 THEN a
    ELSE LET e == Min(a.e, b.e)
             x == a.m \o Zeros(a.e - e)
             y == b.m \o Zeros(b.e - e)
             c == CmpBits(x, y)
         IN  IF a.s = b.s THEN Canon(a.s, AddBits(x, y), e)
             ELSE IF c = 0 THEN FZero
             ELSE IF c > 0 THEN Canon(a.s, SubBits(x, y), e)
             ELSE Canon(b.s, SubBits(y, x), e)

\* -1, 0, 1 as a < b, a = b, a > b
FCmp(a, b) == FAddExact(a, FNeg(b)).s

\* Long division, 15 bits at a time: the next n chunks of the binary
\* expansion of r/d (r < d < 2^15), then one sticky bit that is 1 iff the
\* expansion goes on.
RECURSIVE FracBits(_, _, _)
FracBits(r, d, n) ==
    IF n = 0
    THEN (IF r # 0 THEN <<1>> ELSE <<0>>)
    ELSE BitsW((r * (2 ^ 15)) \div d, 15)
             \o FracBits((r * (2 ^ 15)) % d, d, n - 1)

\* float64 operations
F64Sub(a, b) == RoundTo(Float64Precision, FAddExact(a, FNeg(b)))

F64Mul(a, b) == RoundTo(Float64Precision, Canon(a.s * b.s, MulBits(a.m, b.m), a.e + b.e))

\* a / b for b # 0.  The significands of both operands are short here (a
\* uint32 pixel count and a float32 natural size of bounded magnitude, both
\* below 2^15), so the long division runs on their integer values.
\* Five chunks give 75 quotient bits, at least 60 of them significant:
\* enough for the guard and sticky positions of the rounding.
F64Div(a, b) ==
    LET na == BitsVal(a.m)
        nb == BitsVal(b.m)
        q  == BitsW(na \div nb, 15) \o FracBits(na % nb, nb, 5)
    IN  RoundTo(Float64Precision, Canon(a.s * b.s, q, a.e - b.e - 76))

\* x / 2.0
F64Half(a) == IF a.s = 0 THEN a ELSE [a EXCEPT !.e = a.e - 1]

\* math.Min on finite, non-NaN operands
F64Min(a, b) == IF FCmp(a, b) <= 0 THEN a ELSE b

\* float64(n) for an integer n of at most 32 bits: exact
F64FromInt(n) == Canon(IF n < 0 THEN -1 ELSE 1, Bits(IF n < 0 THEN -n ELSE n), 0)

\* the float32 value n/2 (exact), and its widening to float64 (exact)
F32FromHalves(n) == Canon(IF n < 0 THEN -1 ELSE 1, Bits(IF n < 0 THEN -n ELSE n), -1)

\* float32(x) for a float64 x
ToFloat32(a) == RoundTo(Float32Precision, a)

FIsInt(a, n) == a = F64FromInt(n)

FAbs(a) == [a EXCEPT !.s = IF a.s = 0 THEN 0 ELSE 1]

\* a * 2^k, exactly
FScale(a, k) == IF a.s = 0 THEN a ELSE [a EXCEPT !.e = a.e + k]

(***************************************************************************)
(* The transform synthesis of RenderScaledToSize, with its locals.  The    *)
(* natural size is a float32 Size widened to float64, the target a pair of *)
(* uint32 pixel counts.  Each statement is one correctly rounded float64   *)
(* operation (the default amd64 build, which does not fuse the multiply    *)
(* into the subtraction); the Transform fields are float32.                *)
(***************************************************************************)
\* A variant that scales to fill: the larger of the two ratios.
fitLocalsFill(naturalSize, width, height) ==
    LET naturalW == naturalSize.Width
        naturalH == naturalSize.Height
        targetW  == F64FromInt(width)
        targetH  == F64FromInt(height)
        scaleX   == F64Div(targetW, naturalW)
        scaleY   == F64Div(targetH, naturalH)
        scale    == IF FCmp(scaleX, scaleY) >= 0 THEN scaleX ELSE scaleY
        scaledW  == F64Mul(naturalW, scale)
        scaledH  == F64Mul(naturalH, scale)
        tx       == F64Half(F64Sub(targetW, scaledW))
        ty       == F64Half(F64Sub(targetH, scaledH))
    IN  [scale |-> scale, scaledW |-> scaledW, scaledH |-> scaledH,
         tx |-> tx, ty |-> ty,
         transform |-> [A |-> ToFloat32(scale), B |-> FZero, C |-> FZero,
                        D |-> ToFloat32(scale),
                        E |-> ToFloat32(tx), F |-> ToFloat32(ty)]]

\* A variant that aligns the content to the far edge instead of centring
\* it: the offsets are the whole remaining space.
fitLocalsUncentred(naturalSize, width, height) ==
    LET naturalW == naturalSize.Width
        naturalH == naturalSize.Height
        targetW  == F64FromInt(width)
        targetH  == F64FromInt(height)
        scaleX   == F64Div(targetW, naturalW)
        scaleY   == F64Div(targetH, naturalH)
        scale    == F64Min(scaleX, scaleY)
        scaledW  == F64Mul(naturalW, scale)
        scaledH  == F64Mul(naturalH, scale)
        tx       == F64Sub(targetW, scaledW)
        ty       == F64Sub(targetH, scaledH)
    IN  [scale |-> scale, scaledW |-> scaledW, scaledH |-> scaledH,
         tx |-> tx, ty |-> ty,
         transform |-> [A |-> ToFloat32(scale), B |-> FZero, C |-> FZero,
                        D |-> ToFloat32(scale),
                        E |-> ToFloat32(tx), F |-> ToFloat32(ty)]]

fitLocals(naturalSize, width, height) ==
    LET naturalW == naturalSize.Width
        naturalH == naturalSize.Height
        targetW  == F64FromInt(width)
        targetH  == F64FromInt(height)
        scaleX   == F64Div(targetW, naturalW)
        scaleY   == F64Div(targetH, naturalH)
        scale    == F64Min(scaleX, scaleY)
        scaledW  == F64Mul(naturalW, scale)
        scaledH  == F64Mul(naturalH, scale)
        tx       == F64Half(F64Sub(targetW, scaledW))
        ty       == F64Half(F64Sub(targetH, scaledH))
    IN  [scale |-> scale, scaledW |-> scaledW, scaledH |-> scaledH,
         tx |-> tx, ty |-> ty,
         transform |-> [A |-> ToFloat32(scale), B |-> FZero, C |-> FZero,
                        D |-> ToFloat32(scale),
                        E |-> ToFloat32(tx), F |-> ToFloat32(ty)]]

\* The Size the engine reports: float32 width and height, here multiples
\* of one half.
SizeOfHalves(nw, nh) == [Width |-> F32FromHalves(nw), Height |-> F32FromHalves(nh)]

(***************************************************************************)
(* Errors.  An error value is [kind, code]; the six sentinels created by   *)
(* errors.New are distinct values, and the error built by fmt.Errorf for   *)
(* an unmapped code carries that code in its text.                         *)
(***************************************************************************)
RESVG_OK == 0

RESVG_ERROR_NOT_AN_UTF8_STR == 1

RESVG_ERROR_FILE_OPEN_FAILED == 2

RESVG_ERROR_MALFORMED_GZIP == 3

RESVG_ERROR_ELEMENTS_LIMIT_REACHED == 4

RESVG_ERROR_INVALID_SIZE == 5

RESVG_ERROR_PARSING_FAILED == 6

NilError == [kind |-> "nil", code |-> 0]

ErrNotUTF8 == [kind |-> "ErrNotUTF8", code |-> 0]

ErrFileOpenFailed == [kind |-> "ErrFileOpenFailed", code |-> 0]

ErrMalformedGzip == [kind |-> "ErrMalformedGzip", code |-> 0]

ErrElementsLimit == [kind |-> "ErrElementsLimit", code |-> 0]

ErrInvalidSize == [kind |-> "ErrInvalidSize", code |-> 0]

ErrParsingFailed == [kind |-> "ErrParsingFailed", code |-> 0]

UnknownError(code) == [kind |-> "unknown resvg error", code |-> code]

EmptyDataError == [kind |-> "empty data", code |-> 0]

NoElementsError == [kind |-> "SVG contains no renderable elements", code |-> 0]

InvalidDimensionsError == [kind |-> "SVG has invalid dimensions", code |-> 0]

InvalidNaturalDimensionsError == [kind |-> "SVG has invalid natural dimensions", code |-> 0]

RenderNodeError == [kind |-> "failed to render node with id", code |-> 0]

\* A variant with a copy-paste slip in one case and a default that drops
\* the code.
cErrorToGoErrorSlip(result) ==
    CASE result = RESVG_OK -> NilError
      [] result = RESVG_ERROR_NOT_AN_UTF8_STR -> ErrNotUTF8
      [] result = RESVG_ERROR_FILE_OPEN_FAILED -> ErrFileOpenFailed
      [] result = RESVG_ERROR_MALFORMED_GZIP -> ErrMalformedGzip
      [] result = RESVG_ERROR_ELEMENTS_LIMIT_REACHED -> ErrElementsLimit
      [] result = RESVG_ERROR_INVALID_SIZE -> ErrParsingFailed
      [] result = RESVG_ERROR_PARSING_FAILED -> ErrParsingFailed
      [] OTHER -> UnknownError(0)

cErrorToGoError(result) ==
    CASE result = RESVG_OK -> NilError
      [] result = RESVG_ERROR_NOT_AN_UTF8_STR -> ErrNotUTF8
      [] result = RESVG_ERROR_FILE_OPEN_FAILED -> ErrFileOpenFailed
      [] result = RESVG_ERROR_MALFORMED_GZIP -> ErrMalformedGzip
      [] result = RESVG_ERROR_ELEMENTS_LIMIT_REACHED -> ErrElementsLimit
      [] result = RESVG_ERROR_INVALID_SIZE -> ErrInvalidSize
      [] result = RESVG_ERROR_PARSING_FAILED -> ErrParsingFailed
      [] OTHER -> UnknownError(result)

(***************************************************************************)
(* The Go heap and the foreign side.  A world w is the part of the state   *)
(* an operation of the package works on:                                   *)
(*   w.opts[o]    an Options object, cOpts its handle (NilHandle = nil);   *)
(*   w.trees[t]   a RenderTree object, cTree its handle;                   *)
(*   w.finalizers the objects with a finalizer set and not yet run;        *)
(*   w.engine[h]  what the engine holds for handle h: the number of times  *)
(*                its destroy function was called on it and, for a tree,   *)
(*                the document's emptiness and natural size (in halves);   *)
(*   w.calls      the trace of the operation.                              *)
(* The fields orig (the handle an object was created with) and scoped (a   *)
(* handle acquired inside a convenience function) are bookkeeping for the  *)
(* properties; no operation reads them.                                    *)
(***************************************************************************)
NilHandle == 0

OptionsObj(o) == <<"Options", o>>

TreeObj(t) == <<"RenderTree", t>>

Foreign(w, fn, h) == [w EXCEPT !.calls = Append(@, [fn |-> fn, h |-> h])]

SetFinalizer(w, obj) ==
    [w EXCEPT !.finalizers = @ \cup {obj},
              !.calls = Append(@, [fn |-> "runtime.SetFinalizer", h |-> NilHandle])]

\* resvg_options_create / resvg_parse_tree_*: the engine hands out a handle
\* it never handed out before.
EngineAlloc(w, kind, doc) ==
    [w EXCEPT !.engine = Append(@, [kind |-> kind, destroys |-> 0, scoped |-> FALSE,
                                    empty |-> doc.empty, nw |-> doc.nw, nh |-> doc.nh])]

\* resvg_options_destroy / resvg_tree_destroy: the engine frees what the
\* handle refers to.
EngineDestroy(w, h) ==
    [w EXCEPT !.engine[h] = [@ EXCEPT !.destroys = @ + 1,
                                      !.empty = FALSE, !.nw = 0, !.nh = 0]]

NoDoc == [empty |-> FALSE, nw |-> 0, nh |-> 0]

\* NewOptions
newOptions(w) ==
    LET h  == Len(w.engine) + 1
        o  == Len(w.opts) + 1
        w1 == EngineAlloc(Foreign(w, "resvg_options_create", NilHandle), "options", NoDoc)
        w2 == [w1 EXCEPT !.opts = Append(@, [cOpts |-> h, orig |-> h])]
    IN  [w |-> SetFinalizer(w2, OptionsObj(o)), obj |-> o]

\* C.CString(text): a copy of the bytes of the Go string in C memory, with a
\* terminating NUL byte.
CString(text) == text \o <<0>>

\* A char* argument of a foreign call: nil, or a pointer to a buffer.
NilPointer == [null |-> TRUE, buf |-> <<>>]

PointerTo(buf) == [null |-> FALSE, buf |-> buf]

\* A foreign setter called with a char* argument.
ForeignText(w, fn, h, arg) == [w EXCEPT !.calls = Append(@, [fn |-> fn, h |-> h, arg |-> arg])]

\* C.CString and C.free as steps of the trace.
Marshal(w, text) ==
    [w EXCEPT !.calls = Append(@, [fn |-> "C.CString", h |-> NilHandle, buf |-> CString(text)])]

Free(w, buf) == [w EXCEPT !.calls = Append(@, [fn |-> "C.free", h |-> NilHandle, buf |-> buf])]

\* A variant of Options.SetResourcesDir that marshals every string, the
\* empty one included.
setResourcesDirAlways(w, o, path) ==
    Free(ForeignText(Marshal(w, path), "resvg_options_set_resources_dir",
                     w.opts[o].cOpts, PointerTo(CString(path))),
         CString(path))

\* Options.SetResourcesDir; the deferred C.free runs after the setter
setResourcesDir(w, o, path) ==
    IF path = <<>>
    THEN ForeignText(w, "resvg_options_set_resources_dir", w.opts[o].cOpts, NilPointer)
    ELSE Free(ForeignText(Marshal(w, path), "resvg_options_set_resources_dir",
                          w.opts[o].cOpts, PointerTo(CString(path))),
              CString(path))

\* Options.SetStylesheet
setStylesheet(w, o, css) ==
    IF css = <<>>
    THEN ForeignText(w, "resvg_options_set_stylesheet", w.opts[o].cOpts, NilPointer)
    ELSE Free(ForeignText(Marshal(w, css), "resvg_options_set_stylesheet",
                          w.opts[o].cOpts, PointerTo(CString(css))),
              CString(css))

\* Options.LoadSystemFonts
loadSystemFonts(w, o) == Foreign(w, "resvg_options_load_system_fonts", w.opts[o].cOpts)

\* Options.LoadFontFile; result is what resvg_options_load_font_file returns
loadFontFile(w, o, result) ==
    [w |-> Foreign(w, "resvg_options_load_font_file", w.opts[o].cOpts),
     err |-> cErrorToGoError(result)]

\* A variant of Options.destroy that does not reset the handle field.
optionsDestroyNoReset(w, o) ==
    IF w.opts[o].cOpts # NilHandle
    THEN EngineDestroy(Foreign(w, "resvg_options_destroy", w.opts[o].cOpts),
                       w.opts[o].cOpts)
    ELSE w

\* Options.destroy
optionsDestroy(w, o) ==
    IF w.opts[o].cOpts # NilHandle
    THEN [EngineDestroy(Foreign(w, "resvg_options_destroy", w.opts[o].cOpts),
                        w.opts[o].cOpts)
            EXCEPT !.opts[o].cOpts = NilHandle]
    ELSE w

\* A variant of RenderTree.destroy that does not reset the handle field.
treeDestroyNoReset(w, t) ==
    IF w.trees[t].cTree # NilHandle
    THEN EngineDestroy(Foreign(w, "resvg_tree_destroy", w.trees[t].cTree),
                       w.trees[t].cTree)
    ELSE w

\* RenderTree.destroy
treeDestroy(w, t) ==
    IF w.trees[t].cTree # NilHandle
    THEN [EngineDestroy(Foreign(w, "resvg_tree_destroy", w.trees[t].cTree),
                        w.trees[t].cTree)
            EXCEPT !.trees[t].cTree = NilHandle]
    ELSE w

\* The tail shared by ParseFromData and ParseFromFile: the engine was called
\* (w1) and answered out = [code, empty, nw, nh]; it stores a tree handle
\* through the out-pointer exactly when it answers RESVG_OK.
parseTail(w1, out) ==
    LET ok    == out.code = RESVG_OK
        w2    == IF ok THEN EngineAlloc(w1, "tree", out) ELSE w1
        cTree == IF ok THEN Len(w2.engine) ELSE NilHandle
        err   == cErrorToGoError(out.code)
        t     == Len(w2.trees) + 1
        w3    == [w2 EXCEPT !.trees = Append(@, [cTree |-> cTree, orig |-> cTree])]
    IN  IF err # NilError
        THEN [w |-> w2, tree |-> 0, err |-> err]
        ELSE [w |-> SetFinalizer(w3, TreeObj(t)), tree |-> t, err |-> NilError]

\* A variant of ParseFromData without the length check.
parseFromDataUnchecked(w, dataLen, o, out) ==
    parseTail(Foreign(w, "resvg_parse_tree_from_data", w.opts[o].cOpts), out)

\* ParseFromData; tree = 0 is the nil *RenderTree
parseFromData(w, dataLen, o, out) ==
    IF dataLen = 0
    THEN [w |-> w, tree |-> 0, err |-> EmptyDataError]
    ELSE parseTail(Foreign(w, "resvg_parse_tree_from_data", w.opts[o].cOpts), out)

\* ParseFromFile
parseFromFile(w, o, out) ==
    parseTail(Foreign(w, "resvg_parse_tree_from_file", w.opts[o].cOpts), out)

\* RenderTree.IsEmpty
isEmpty(w, t) ==
    [w |-> Foreign(w, "resvg_is_image_empty", w.trees[t].cTree),
     val |-> w.engine[w.trees[t].cTree].empty]

\* RenderTree.GetImageSize
getImageSize(w, t) ==
    [w |-> Foreign(w, "resvg_get_image_size", w.trees[t].cTree),
     val |-> SizeOfHalves(w.engine[w.trees[t].cTree].nw, w.engine[w.trees[t].cTree].nh)]

\* IdentityTransform: the engine's resvg_transform_identity
identityTransform(w) ==
    [w |-> Foreign(w, "resvg_transform_identity", NilHandle),
     val |-> [A |-> F64FromInt(1), B |-> FZero, C |-> FZero,
              D |-> F64FromInt(1), E |-> FZero, F |-> FZero]]

(***************************************************************************)
(* Rendering.  What the engine writes into the buffer is its own business: *)
(* fill is the choice, one of EnginePixels per pixel (repeated cyclically  *)
(* over the canvas).                                                       *)
(***************************************************************************)
EnginePixels == << <<0, 0, 0, 0>>, <<100, 50, 0, 128>>, <<255, 0, 0, 255>> >>

RawPix(fill, n) ==
    [i \in 1..(4 * n) |-> EnginePixels[fill[(((i - 1) \div 4) % Len(fill)) + 1]][((i - 1) % 4) + 1]]

\* A variant of the conversion that rounds up.
ToUint32Ceil(a) ==
    IF a.s <= 0 THEN 0
    ELSE IF a.e >= 0 THEN BitsVal(a.m) * (2 ^ a.e)
    ELSE (BitsVal(a.m) + (2 ^ (-a.e)) - 1) \div (2 ^ (-a.e))

\* uint32(x) for a float32 x >= 0 of small magnitude: truncation
ToUint32(a) ==
    IF a.s <= 0 THEN 0
    ELSE IF a.e >= 0 THEN BitsVal(a.m) * (2 ^ a.e)
    ELSE BitsVal(a.m) \div (2 ^ (-a.e))

\* A variant of RenderTree.Render that runs the alpha pass a second time.
treeRenderConvertTwice(w, t, transform, width, height, fill) ==
    LET img == NewRGBA(width, height)
        w1  == [w EXCEPT !.calls = Append(@, [fn |-> "resvg_render", h |-> w.trees[t].cTree,
                                              transform |-> transform,
                                              width |-> width, height |-> height,
                                              wrote |-> RawPix(fill, width * height)])]
        raw == [img EXCEPT !.Pix = RawPix(fill, width * height)]
        w2  == [w1 EXCEPT !.calls = Append(@, [fn |-> "convertFromPremultiplied", h |-> NilHandle])]
    IN  IF Len(img.Pix) = 0
        THEN [w |-> w, img |-> NilImage, panic |-> TRUE]
        ELSE [w |-> w2, img |-> convertFromPremultiplied(convertFromPremultiplied(raw)),
              panic |-> FALSE]

\* RenderTree.Render.  The call record keeps what the engine wrote through
\* the buffer pointer (wrote).  &img.Pix[0] is evaluated as an argument of the
\* foreign call: on an empty buffer it panics before the call is made.
treeRender(w, t, transform, width, height, fill) ==
    LET img == NewRGBA(width, height)
        w1  == [w EXCEPT !.calls = Append(@, [fn |-> "resvg_render", h |-> w.trees[t].cTree,
                                              transform |-> transform,
                                              width |-> width, height |-> height,
                                              wrote |-> RawPix(fill, width * height)])]
        raw == [img EXCEPT !.Pix = RawPix(fill, width * height)]
        w2  == [w1 EXCEPT !.calls = Append(@, [fn |-> "convertFromPremultiplied", h |-> NilHandle])]
    IN  IF Len(img.Pix) = 0
        THEN [w |-> w, img |-> NilImage, panic |-> TRUE]
        ELSE [w |-> w2, img |-> convertFromPremultiplied(raw), panic |-> FALSE]

\* A variant of RenderTree.RenderNode that returns the buffer with the error.
treeRenderNodeLeaky(w, t, transform, width, height, fill, success) ==
    LET img == NewRGBA(width, height)
        w1  == [w EXCEPT !.calls = Append(@, [fn |-> "resvg_render_node", h |-> w.trees[t].cTree,
                                              transform |-> transform,
                                              width |-> width, height |-> height,
                                              wrote |-> RawPix(fill, width * height)])]
        raw == [img EXCEPT !.Pix = RawPix(fill, width * height)]
        w2  == [w1 EXCEPT !.calls = Append(@, [fn |-> "convertFromPremultiplied", h |-> NilHandle])]
    IN  IF Len(img.Pix) = 0
        THEN [w |-> w, img |-> NilImage, err |-> NilError, panic |-> TRUE]
        ELSE IF ~success
        THEN [w |-> w2, img |-> convertFromPremultiplied(raw), err |-> RenderNodeError, panic |-> FALSE]
        ELSE [w |-> w2, img |-> convertFromPremultiplied(raw), err |-> NilError, panic |-> FALSE]

\* RenderTree.RenderNode; success is what resvg_render_node returns
treeRenderNode(w, t, transform, width, height, fill, success) ==
    LET img == NewRGBA(width, height)
        w1  == [w EXCEPT !.calls = Append(@, [fn |-> "resvg_render_node", h |-> w.trees[t].cTree,
                                              transform |-> transform,
                                              width |-> width, height |-> height,
                                              wrote |-> RawPix(fill, width * height)])]
        raw == [img EXCEPT !.Pix = RawPix(fill, width * height)]
        w2  == [w1 EXCEPT !.calls = Append(@, [fn |-> "convertFromPremultiplied", h |-> NilHandle])]
    IN  IF Len(img.Pix) = 0
        THEN [w |-> w, img |-> NilImage, err |-> NilError, panic |-> TRUE]
        ELSE IF ~success
        THEN [w |-> w1, img |-> NilImage, err |-> RenderNodeError, panic |-> FALSE]
        ELSE [w |-> w2, img |-> convertFromPremultiplied(raw), err |-> NilError, panic |-> FALSE]

(***************************************************************************)
(* The convenience entry points.  Each result is what the function leaves  *)
(* behind when it returns or panics; the deferred destroy calls run on     *)
(* every way out, the last deferred first.                                 *)
(***************************************************************************)
Result(w, img, err, panic) == [w |-> w, img |-> img, err |-> err, panic |-> panic]

\* Render
render(w, dataLen, out, fill) ==
    LET r1 == newOptions(w)
        o  == r1.obj
        r2 == parseFromData(loadSystemFonts(r1.w, o), dataLen, o, out)
        t  == r2.tree
        deferred(wx) == optionsDestroy(treeDestroy(wx, t), o)
        r3 == isEmpty(r2.w, t)
        r4 == getImageSize(r3.w, t)
        r5 == identityTransform(r4.w)
        r6 == treeRender(r5.w, t, r5.val,
                         ToUint32(r4.val.Width), ToUint32(r4.val.Height), fill)
    IN  IF r2.err # NilError
        THEN Result(optionsDestroy(r2.w, o), NilImage, r2.err, FALSE)
        ELSE IF r3.val
        THEN Result(deferred(r3.w), NilImage, NoElementsError, FALSE)
        ELSE IF r4.val.Width.s <= 0 \/ r4.val.Height.s <= 0
        THEN Result(deferred(r4.w), NilImage, InvalidDimensionsError, FALSE)
        ELSE Result(deferred(r6.w), r6.img, NilError, r6.panic)

\* A variant of RenderWithSize without the IsEmpty check.
renderWithSizeUnchecked(w, dataLen, width, height, out, fill) ==
    LET r1 == newOptions(w)
        o  == r1.obj
        r2 == parseFromData(loadSystemFonts(r1.w, o), dataLen, o, out)
        t  == r2.tree
        deferred(wx) == optionsDestroy(treeDestroy(wx, t), o)
        r5 == identityTransform(r2.w)
        r6 == treeRender(r5.w, t, r5.val, width, height, fill)
    IN  IF r2.err # NilError
        THEN Result(optionsDestroy(r2.w, o), NilImage, r2.err, FALSE)
        ELSE Result(deferred(r6.w), r6.img, NilError, r6.panic)

\* RenderWithSize
renderWithSize(w, dataLen, width, height, out, fill) ==
    LET r1 == newOptions(w)
        o  == r1.obj
        r2 == parseFromData(loadSystemFonts(r1.w, o), dataLen, o, out)
        t  == r2.tree
        deferred(wx) == optionsDestroy(treeDestroy(wx, t), o)
        r3 == isEmpty(r2.w, t)
        r5 == identityTransform(r3.w)
        r6 == treeRender(r5.w, t, r5.val, width, height, fill)
    IN  IF r2.err # NilError
        THEN Result(optionsDestroy(r2.w, o), NilImage, r2.err, FALSE)
        ELSE IF r3.val
        THEN Result(deferred(r3.w), NilImage, NoElementsError, FALSE)
        ELSE Result(deferred(r6.w), r6.img, NilError, r6.panic)

\* RenderScaledToSize
renderScaledToSize(w, dataLen, width, height, out, fill) ==
    LET r1 == newOptions(w)
        o  == r1.obj
        r2 == parseFromData(loadSystemFonts(r1.w, o), dataLen, o, out)
        t  == r2.tree
        deferred(wx) == optionsDestroy(treeDestroy(wx, t), o)
        r3 == isEmpty(r2.w, t)
        r4 == getImageSize(r3.w, t)
        transform == fitLocals(r4.val, width, height).transform
        r6 == treeRender(r4.w, t, transform, width, height, fill)
    IN  IF r2.err # NilError
        THEN Result(optionsDestroy(r2.w, o), NilImage, r2.err, FALSE)
        ELSE IF r3.val
        THEN Result(deferred(r3.w), NilImage, NoElementsError, FALSE)
        ELSE IF r4.val.Width.s <= 0 \/ r4.val.Height.s <= 0
        THEN Result(deferred(r4.w), NilImage, InvalidNaturalDimensionsError, FALSE)
        ELSE Result(deferred(r6.w), r6.img, NilError, r6.panic)

(***************************************************************************)
(* Bounds of the model                                                     *)
(***************************************************************************)
MaxHandles == 2         \* handles the engine hands out in one behaviour

MaxDataLen == 1         \* len(data) ranges over 0..MaxDataLen

MaxCanvas == 1          \* requested width and height range over 0..MaxCanvas

MaxFill == 1            \* length of the engine's pixel pattern

MaxLifeHalves == 3      \* natural width, in halves, ranges over 0..MaxLifeHalves

MaxStrLen == 1          \* Go strings of 0..MaxStrLen bytes

MaxResultCode == 7      \* foreign result codes range over -1..MaxResultCode

MaxNaturalHalves == 4   \* SpecFit: natural sizes 1/2 .. MaxNaturalHalves/2

MaxTarget == 3          \* SpecFit: target sizes 1..MaxTarget

MaxArgLen == 2          \* SpecCli: width and height arguments of 0..MaxArgLen characters

MaxCallers == 2         \* SpecPar: goroutines calling into the package

MaxCalls == 3           \* SpecPar: calls started in one behaviour

ResultCodes == (-1)..MaxResultCode

DataLens == 0..MaxDataLen

\* The bytes of a Go string: NUL and one other value.
StrBytes == {0, 97}

Strings == UNION {[1..n -> StrBytes] : n \in 0..MaxStrLen}

CanvasDims == 0..MaxCanvas

Fills == [1..MaxFill -> 1..Len(EnginePixels)]

\* The documents the engine may build: an empty one, and non-empty ones of
\* natural width 0, 1/2, 1, ... and natural height 0 or 1.
Documents ==
    {[empty |-> TRUE, nw |-> 2, nh |-> 2]}
    \cup {[empty |-> FALSE, nw |-> nw, nh |-> nh] : nw \in 0..MaxLifeHalves, nh \in {0, 2}}

ParseOutcomes ==
    {[code |-> c, empty |-> FALSE, nw |-> 0, nh |-> 0] : c \in ResultCodes \ {RESVG_OK}}
    \cup {[code |-> RESVG_OK, empty |-> d.empty, nw |-> d.nw, nh |-> d.nh] : d \in Documents}

(***************************************************************************)
(* State                                                                   *)
(***************************************************************************)
NoObj == <<"none", 0>>

RetNone ==
    [op |-> "none", obj |-> NoObj, dataLen |-> 0, width |-> 0, height |-> 0,
     code |-> 0, success |-> TRUE,
     out |-> [code |-> 0, empty |-> FALSE, nw |-> 0, nh |-> 0],
     text |-> <<>>,
     err |-> NilError, img |-> NilImage, tree |-> 0, panic |-> FALSE]

ConvIdle == [done |-> FALSE, raw |-> NewRGBA(0, 0), out |-> NewRGBA(0, 0)]

FitIdle == [done |-> FALSE, nw |-> 0, nh |-> 0, width |-> 0, height |-> 0,
            out |-> fitLocals(SizeOfHalves(2, 2), 1, 1)]

(***************************************************************************)
(* examples/svg2png: the command-line program.  A command-line argument is *)
(* a sequence of characters.  A uint32 is kept as hi * 65536 + lo.         *)
(***************************************************************************)
DigitChars == <<"0", "1", "2", "3", "4", "5", "6", "7", "8", "9">>

IsDigit(c) == \E i \in 1..10 : DigitChars[i] = c

DigitVal(c) == (CHOOSE i \in 1..10 : DigitChars[i] = c) - 1

RECURSIVE parseUintFrom(_, _, _, _)
\* The digit loop of strconv.ParseUint(s, 10, 32): a character that is not
\* a digit is a syntax error, a value above 2^32 - 1 a range error.
parseUintFrom(s, i, hi, lo) ==
    IF i > Len(s) THEN [ok |-> TRUE, hi |-> hi, lo |-> lo]
    ELSE IF ~IsDigit(s[i]) THEN [ok |-> FALSE, hi |-> 0, lo |-> 0]
    ELSE LET t   == lo * 10 + DigitVal(s[i])
             hi2 == hi * 10 + (t \div 65536)
         IN  IF hi2 >= 65536
             THEN [ok |-> FALSE, hi |-> 0, lo |-> 0]
             ELSE parseUintFrom(s, i + 1, hi2, t % 65536)

\* strconv.ParseUint(s, 10, 32)
ParseUint(s) ==
    IF s = <<>> THEN [ok |-> FALSE, hi |-> 0, lo |-> 0] ELSE parseUintFrom(s, 1, 0, 0)

\* The canvas dimension the package model is run with for a uint32 v: v
\* itself up to MaxCanvas, MaxCanvas above.
ClipDim(v) == IF v.hi = 0 /\ v.lo <= MaxCanvas THEN v.lo ELSE MaxCanvas

\* filepath.Ext: the suffix from the last dot of the last path element
Ext(path) ==
    LET dots == {i \in 1..Len(path) :
                    /\ path[i] = "."
                    /\ \A j \in i..Len(path) : path[j] # "/"}
    IN  IF dots = {} THEN <<>>
        ELSE SubSeq(path, CHOOSE i \in dots : \A j \in dots : j <= i, Len(path))

\* strings.TrimSuffix(inputFile, ext) + ".png"
DefaultOutput(inputFile) ==
    SubSeq(inputFile, 1, Len(inputFile) - Len(Ext(inputFile))) \o <<".", "p", "n", "g">>

\* What the process meets outside the program: whether the input file can
\* be read and how long it is, what the engine makes of it, whether the
\* output file can be created and the PNG written.
CliEnvNone == [readOk |-> TRUE, dataLen |-> 0,
               out |-> [code |-> 0, empty |-> FALSE, nw |-> 0, nh |-> 0],
               fill |-> [i \in 1..MaxFill |-> 1], createOk |-> TRUE, encodeOk |-> TRUE]

CliResultNone ==
    [exit |-> 0, msg |-> "", read |-> FALSE, rendered |-> "none", logInit |-> FALSE,
     width |-> [hi |-> 0, lo |-> 0], height |-> [hi |-> 0, lo |-> 0],
     output |-> <<>>, err |-> NilError, img |-> NilImage, panic |-> FALSE,
     created |-> FALSE, encoded |-> FALSE]

CliIdle == [done |-> FALSE, args |-> <<>>, env |-> CliEnvNone, res |-> CliResultNone]

\* main of svg2png with os.Args = args in environment env, w the world the
\* package starts in.  An os.Exit(1) ends the run with exit code 1; a panic
\* that nothing recovers ends it with exit code 2.
main(w, args, env) ==
    LET outputFile == IF Len(args) > 2 THEN args[3] ELSE DefaultOutput(args[2])
        pw == ParseUint(args[4])
        ph == ParseUint(args[5])
        useCustomSize == Len(args) > 4
        width  == IF Len(args) > 3 THEN [hi |-> pw.hi, lo |-> pw.lo] ELSE [hi |-> 0, lo |-> 0]
        height == IF Len(args) > 4 THEN [hi |-> ph.hi, lo |-> ph.lo] ELSE [hi |-> 0, lo |-> 0]
        r == IF useCustomSize
             THEN renderWithSize(w, env.dataLen, ClipDim(width), ClipDim(height),
                                 env.out, env.fill)
             ELSE render(w, env.dataLen, env.out, env.fill)
        parsed == [CliResultNone EXCEPT !.output = outputFile, !.width = width,
                                        !.height = height, !.logInit = TRUE]
        asked  == [parsed EXCEPT !.read = TRUE]
        drawn  == [asked EXCEPT !.rendered = IF useCustomSize THEN "RenderWithSize" ELSE "Render",
                                !.err = r.err, !.img = r.img, !.panic = r.panic]
    IN  IF Len(args) < 2
        THEN [CliResultNone EXCEPT !.exit = 1, !.msg = "Usage"]
        ELSE IF Len(args) > 3 /\ ~pw.ok
        THEN [CliResultNone EXCEPT !.exit = 1, !.msg = "Error parsing width",
                                   !.output = outputFile]
        ELSE IF Len(args) > 4 /\ ~ph.ok
        THEN [CliResultNone EXCEPT !.exit = 1, !.msg = "Error parsing height",
                                   !.output = outputFile, !.width = width]
        ELSE IF Len(args) = 4
        THEN [CliResultNone EXCEPT !.exit = 1,
                                   !.msg = "Error: height must be specified when width is provided",
                                   !.output = outputFile, !.width = width]
        ELSE IF ~env.readOk
        THEN [asked EXCEPT !.exit = 1, !.msg = "Error reading SVG file"]
        ELSE IF r.panic
        THEN [drawn EXCEPT !.exit = 2, !.msg = "panic"]
        ELSE IF r.err # NilError
        THEN [drawn EXCEPT !.exit = 1, !.msg = "Error rendering SVG"]
        ELSE IF ~env.createOk
        THEN [drawn EXCEPT !.exit = 1, !.msg = "Error creating output file"]
        ELSE IF ~env.encodeOk
        THEN [drawn EXCEPT !.exit = 1, !.msg = "Error encoding PNG", !.created = TRUE]
        ELSE [drawn EXCEPT !.exit = 0, !.created = TRUE, !.encoded = TRUE]

\* A caller's frame: the call it is in (op, on object obj, numbered call),
\* how far it got (pc), the handle it read as an argument (h), the buffer it
\* allocated (img), whether the foreign call succeeded (ok), whether the
\* engine worked on a destroyed handle (uaf), and the buffer it was handed
\* when its last call returned (result).
FrameIdle == [pc |-> "idle", op |-> "none", obj |-> NoObj, h |-> NilHandle,
              img |-> 0, call |-> 0, ok |-> TRUE, uaf |-> FALSE, result |-> 0]

Callers == 1..MaxCallers

StepInit ==
    /\ frames = [c \in Callers |-> FrameIdle]
    /\ bufs = <<>>
    /\ ncalls = 0

LifeInit ==
    /\ opts = <<>>
    /\ trees = <<>>
    /\ held = {}
    /\ finalizers = {}
    /\ engine = <<>>
    /\ calls = <<>>
    /\ ret = RetNone

\* The world an operation starts in: the current heap and engine, and an
\* empty trace.
World == [opts |-> opts, trees |-> trees, finalizers |-> finalizers,
          engine |-> engine, calls |-> <<>>]

\* The operation ends: its world becomes the state, r is what it returned.
Commit(w, r) ==
    /\ opts' = w.opts
    /\ trees' = w.trees
    /\ finalizers' = w.finalizers
    /\ engine' = w.engine
    /\ calls' = w.calls
    /\ ret' = r
    /\ UNCHANGED <<cli, conv, fit, stepVars>>

\* The handles acquired since the operation began are marked scoped.
MarkScoped(w) ==
    [w EXCEPT !.engine = [h \in 1..Len(w.engine) |->
                             IF h > Len(engine)
                             THEN [w.engine[h] EXCEPT !.scoped = TRUE]
                             ELSE w.engine[h]]]

LiveOptions == {o \in 1..Len(opts) : OptionsObj(o) \in held /\ opts[o].cOpts # NilHandle}

LiveTrees == {t \in 1..Len(trees) : TreeObj(t) \in held /\ trees[t].cTree # NilHandle}

\* The transform a caller passes to RenderTree.Render and RenderNode.
CallerTransform == [A |-> F64FromInt(1), B |-> FZero, C |-> FZero,
                    D |-> F64FromInt(1), E |-> FZero, F |-> FZero]

(***************************************************************************)
(* Actions of the life-cycle specification.  A caller works on the objects *)
(* it holds; it does not call the exported methods of an object whose      *)
(* handle it has destroyed.                                                *)
(***************************************************************************)
NewOptions ==
    /\ Len(engine) < MaxHandles
    /\ LET r == newOptions(World)
       IN  /\ Commit(r.w, [RetNone EXCEPT !.op = "NewOptions", !.obj = OptionsObj(r.obj)])
           /\ held' = held \cup {OptionsObj(r.obj)}

LoadFontFile ==
    \E o \in LiveOptions, result \in ResultCodes :
        LET r == loadFontFile(World, o, result)
        IN  /\ Commit(r.w, [RetNone EXCEPT !.op = "LoadFontFile", !.obj = OptionsObj(o),
                                           !.code = result, !.err = r.err])
            /\ UNCHANGED held

SetResourcesDir ==
    \E o \in LiveOptions, path \in Strings :
        /\ Commit(setResourcesDir(World, o, path),
                  [RetNone EXCEPT !.op = "Options.SetResourcesDir", !.obj = OptionsObj(o),
                                  !.text = path])
        /\ UNCHANGED held

SetStylesheet ==
    \E o \in LiveOptions, css \in Strings :
        /\ Commit(setStylesheet(World, o, css),
                  [RetNone EXCEPT !.op = "Options.SetStylesheet", !.obj = OptionsObj(o),
                                  !.text = css])
        /\ UNCHANGED held

ParseFromData ==
    /\ Len(engine) < MaxHandles
    /\ \E o \in LiveOptions, dataLen \in DataLens, out \in ParseOutcomes :
        LET r == parseFromData(World, dataLen, o, out)
        IN  /\ Commit(r.w, [RetNone EXCEPT !.op = "ParseFromData", !.obj = OptionsObj(o),
                                           !.dataLen = dataLen,
                                           !.code = IF dataLen = 0 THEN 0 ELSE out.code,
                                           !.err = r.err, !.tree = r.tree])
            /\ held' = IF r.tree # 0 THEN held \cup {TreeObj(r.tree)} ELSE held

ParseFromFile ==
    /\ Len(engine) < MaxHandles
    /\ \E o \in LiveOptions, out \in ParseOutcomes :
        LET r == parseFromFile(World, o, out)
        IN  /\ Commit(r.w, [RetNone EXCEPT !.op = "ParseFromFile", !.obj = OptionsObj(o),
                                           !.code = out.code,
                                           !.err = r.err, !.tree = r.tree])
            /\ held' = IF r.tree # 0 THEN held \cup {TreeObj(r.tree)} ELSE held

TreeRender ==
    \E t \in LiveTrees, width \in CanvasDims, height \in CanvasDims, fill \in Fills :
        LET r == treeRender(World, t, CallerTransform, width, height, fill)
        IN  /\ Commit(r.w, [RetNone EXCEPT !.op = "RenderTree.Render", !.obj = TreeObj(t),
                                           !.width = width, !.height = height,
                                           !.img = r.img, !.panic = r.panic])
            /\ UNCHANGED held

TreeRenderNode ==
    \E t \in LiveTrees, width \in CanvasDims, height \in CanvasDims, fill \in Fills,
       success \in BOOLEAN :
        LET r == treeRenderNode(World, t, CallerTransform, width, height, fill, success)
        IN  /\ Commit(r.w, [RetNone EXCEPT !.op = "RenderTree.RenderNode", !.obj = TreeObj(t),
                                           !.width = width, !.height = height,
                                           !.success = success,
                                           !.err = r.err, !.img = r.img, !.panic = r.panic])
            /\ UNCHANGED held

\* An explicit call of the unexported destroy methods, from inside the package.
OptionsDestroy ==
    \E o \in 1..Len(opts) :
        /\ OptionsObj(o) \in held
        /\ Commit(optionsDestroy(World, o),
                  [RetNone EXCEPT !.op = "Options.destroy", !.obj = OptionsObj(o)])
        /\ UNCHANGED held

TreeDestroy ==
    \E t \in 1..Len(trees) :
        /\ TreeObj(t) \in held
        /\ Commit(treeDestroy(World, t),
                  [RetNone EXCEPT !.op = "RenderTree.destroy", !.obj = TreeObj(t)])
        /\ UNCHANGED held

\* The caller lets go of an object.
Drop ==
    \E obj \in held :
        /\ held' = held \ {obj}
        /\ UNCHANGED <<cli, conv, fit, opts, trees, finalizers, engine, calls, ret, stepVars>>

\* The garbage collector runs the finalizer of an unreachable object: the
\* destroy method set by runtime.SetFinalizer, once.
Finalize ==
    \E obj \in finalizers \ held :
        LET w0 == [World EXCEPT !.finalizers = @ \ {obj}]
            w1 == IF obj[1] = "Options"
                  THEN optionsDestroy(w0, obj[2])
                  ELSE treeDestroy(w0, obj[2])
        IN  /\ Commit(w1, [RetNone EXCEPT !.op = "finalizer", !.obj = obj])
            /\ UNCHANGED held

Render ==
    /\ Len(engine) + 2 <= MaxHandles
    /\ \E dataLen \in DataLens, out \in ParseOutcomes, fill \in Fills :
        LET r == render(World, dataLen, out, fill)
        IN  /\ Commit(MarkScoped(r.w),
                      [RetNone EXCEPT !.op = "Render", !.dataLen = dataLen,
                                      !.code = IF dataLen = 0 THEN 0 ELSE out.code,
                                      !.out = out,
                                      !.err = r.err, !.img = r.img, !.panic = r.panic])
            /\ UNCHANGED held

RenderWithSize ==
    /\ Len(engine) + 2 <= MaxHandles
    /\ \E dataLen \in DataLens, width \in CanvasDims, height \in CanvasDims,
          out \in ParseOutcomes, fill \in Fills :
        LET r == renderWithSize(World, dataLen, width, height, out, fill)
        IN  /\ Commit(MarkScoped(r.w),
                      [RetNone EXCEPT !.op = "RenderWithSize", !.dataLen = dataLen,
                                      !.width = width, !.height = height,
                                      !.code = IF dataLen = 0 THEN 0 ELSE out.code,
                                      !.out = out,
                                      !.err = r.err, !.img = r.img, !.panic = r.panic])
            /\ UNCHANGED held

RenderScaledToSize ==
    /\ Len(engine) + 2 <= MaxHandles
    /\ \E dataLen \in DataLens, width \in CanvasDims, height \in CanvasDims,
          out \in ParseOutcomes, fill \in Fills :
        LET r == renderScaledToSize(World, dataLen, width, height, out, fill)
        IN  /\ Commit(MarkScoped(r.w),
                      [RetNone EXCEPT !.op = "RenderScaledToSize", !.dataLen = dataLen,
                                      !.width = width, !.height = height,
                                      !.code = IF dataLen = 0 THEN 0 ELSE out.code,
                                      !.out = out,
                                      !.err = r.err, !.img = r.img, !.panic = r.panic])
            /\ UNCHANGED held

Init == conv = ConvIdle /\ fit = FitIdle /\ LifeInit /\ StepInit /\ cli = CliIdle

Next ==
    \/ NewOptions
    \/ LoadFontFile
    \/ SetResourcesDir
    \/ SetStylesheet
    \/ ParseFromData
    \/ ParseFromFile
    \/ TreeRender
    \/ TreeRenderNode
    \/ OptionsDestroy
    \/ TreeDestroy
    \/ Drop
    \/ Finalize
    \/ Render
    \/ RenderWithSize
    \/ RenderScaledToSize

Spec == Init /\ [][Next]_vars

(***************************************************************************)
(* SpecConv: convertFromPremultiplied on its own.  The image is one pixel  *)
(* wide and two high.  In the first pixel the alpha byte and the red byte  *)
(* range over all 256 values each, and green and blue are fixed bijective  *)
(* images of red, so that every channel takes every value against every    *)
(* alpha and the three channels always differ; the second pixel swaps the  *)
(* roles of the two bytes.                                                 *)
(***************************************************************************)
ConvImage(c, a) ==
    [NewRGBA(1, 2) EXCEPT !.Pix = <<c, MaxByte - c, (c + 128) % (MaxByte + 1), a,
                                    a, (a + 128) % (MaxByte + 1), MaxByte - a, c>>]

InitConv ==
    /\ conv \in {[done |-> FALSE, raw |-> ConvImage(c, a), out |-> ConvImage(c, a)] :
                    c \in Bytes, a \in Bytes}
    /\ fit = FitIdle
    /\ LifeInit
    /\ StepInit
    /\ cli = CliIdle

ConvApply ==
    /\ ~conv.done
    /\ conv' = [conv EXCEPT !.done = TRUE, !.out = convertFromPremultiplied(conv.raw)]
    /\ UNCHANGED <<cli, fit, opts, trees, held, finalizers, engine, calls, ret, stepVars>>

SpecConv == InitConv /\ [][ConvApply]_vars

(***************************************************************************)
(* SpecFit: the transform synthesis on its own, over natural sizes in      *)
(* halves and integer targets.                                             *)
(***************************************************************************)
FitNaturalHalves == (1..MaxNaturalHalves) \cup {11, 100}

FitTargets == (1..MaxTarget) \cup {15, 100, 200}

InitFit ==
    /\ fit \in {[done |-> FALSE, nw |-> nw, nh |-> nh, width |-> width, height |-> height,
                 out |-> FitIdle.out] :
                   nw \in FitNaturalHalves, nh \in FitNaturalHalves,
                   width \in FitTargets, height \in FitTargets}
    /\ conv = ConvIdle
    /\ LifeInit
    /\ StepInit
    /\ cli = CliIdle

FitApply ==
    /\ ~fit.done
    /\ fit' = [fit EXCEPT !.done = TRUE,
                          !.out = fitLocals(SizeOfHalves(fit.nw, fit.nh), fit.width, fit.height)]
    /\ UNCHANGED <<cli, conv, opts, trees, held, finalizers, engine, calls, ret, stepVars>>

SpecFit == InitFit /\ [][FitApply]_vars

(***************************************************************************)
(* SpecPar: the calls that hand a foreign handle to the engine, taken step *)
(* by step, by several goroutines, with the garbage collector running      *)
(* finalizers in between.  A call goes through                             *)
(*   entered   a render call is about to allocate its image;               *)
(*   ready     the arguments of the foreign call are about to be           *)
(*             evaluated: the frame still refers to the Go object;         *)
(*   foreign   the handle field was read and the foreign call is in        *)
(*             progress: nothing in the frame refers to the Go object      *)
(*             any more;                                                   *)
(*   returned  the foreign call returned;                                  *)
(*   converted the alpha pass ran over the image;                          *)
(* and back to idle when it returns.  An object is reachable while a       *)
(* caller holds it (held) or a frame has yet to read its handle field.     *)
(* The canvas is 1 x 1.  When the engine is handed a destroyed handle the  *)
(* behaviour is undefined: the process may crash, or the call may go on.   *)
(***************************************************************************)
ParseStepOps == {"ParseFromData", "ParseFromFile"}

QueryStepOps == {"RenderTree.IsEmpty", "RenderTree.GetImageSize"}

RenderStepOps == {"RenderTree.Render", "RenderTree.RenderNode"}

StepOps == ParseStepOps \cup QueryStepOps \cup RenderStepOps

\* What the engine answers to a parse in this specification: a failure, or
\* a 1 x 1 document with content.
StepOutcomes ==
    {out \in ParseOutcomes :
        \/ out.code = RESVG_ERROR_PARSING_FAILED
        \/ out.code = RESVG_OK /\ ~out.empty /\ out.nw = 2 /\ out.nh = 2}

\* The handle field of an Options or a RenderTree.
HandleOf(obj) == IF obj[1] = "Options" THEN opts[obj[2]].cOpts ELSE trees[obj[2]].cTree

\* The frame of c still refers to obj: it has yet to read the handle field.
FrameRefers(c, obj) == frames[c].pc \in {"entered", "ready"} /\ frames[c].obj = obj

Reachable(obj) == obj \in held \/ \E c \in Callers : FrameRefers(c, obj)

\* A variant of the allocation that hands out the buffer of an earlier call
\* when there is one.
allocImageShared(bs, call) ==
    IF bs = <<>>
    THEN [bufs |-> <<[Pix |-> NewRGBA(1, 1).Pix, allocBy |-> call, writers |-> {},
                      converters |-> {}, passes |-> 0]>>,
          img |-> 1]
    ELSE [bufs |-> bs, img |-> 1]

\* img := image.NewRGBA(...): a buffer no other call has.  allocBy, writers,
\* converters and passes record which calls touched the buffer.
allocImage(bs, call) ==
    [bufs |-> Append(bs, [Pix |-> NewRGBA(1, 1).Pix, allocBy |-> call, writers |-> {},
                          converters |-> {}, passes |-> 0]),
     img |-> Len(bs) + 1]

\* A caller starts a call on an object it holds.
Enter ==
    \E c \in Callers, op \in StepOps, obj \in held :
        /\ frames[c].pc = "idle"
        /\ ncalls < MaxCalls
        /\ obj[1] = (IF op \in ParseStepOps THEN "Options" ELSE "RenderTree")
        /\ frames' = [frames EXCEPT ![c] =
                         [FrameIdle EXCEPT !.pc = IF op \in RenderStepOps THEN "entered" ELSE "ready",
                                           !.op = op, !.obj = obj, !.call = ncalls + 1]]
        /\ ncalls' = ncalls + 1
        /\ UNCHANGED <<cli, conv, fit, lifeVars, bufs>>

\* RenderTree.Render / RenderNode: img := image.NewRGBA(...)
AllocImage ==
    \E c \in Callers :
        /\ frames[c].pc = "entered"
        /\ LET r == allocImage(bufs, frames[c].call)
           IN  /\ bufs' = r.bufs
               /\ frames' = [frames EXCEPT ![c].pc = "ready", ![c].img = r.img]
        /\ UNCHANGED <<cli, conv, fit, lifeVars, ncalls>>

\* The arguments of the foreign call are evaluated: o.cOpts or t.cTree is
\* read.  This is the last use of the Go object in every one of the calls.
ReadArgs ==
    \E c \in Callers :
        /\ frames[c].pc = "ready"
        /\ frames' = [frames EXCEPT ![c].pc = "foreign", ![c].h = HandleOf(frames[c].obj)]
        /\ UNCHANGED <<cli, conv, fit, lifeVars, bufs, ncalls>>

\* The engine works on the handle it was given.
EngineUses(c) == frames[c].pc = "foreign"

Destroyed(h) == h = NilHandle \/ engine[h].destroys > 0

\* resvg_render / resvg_render_node: the engine writes the pixels through
\* the buffer pointer it was given; resvg_render_node may report failure.
ForeignRender ==
    \E c \in Callers, fill \in Fills, success \in BOOLEAN :
        /\ EngineUses(c)
        /\ frames[c].op \in RenderStepOps
        /\ frames[c].op = "RenderTree.Render" => success
        /\ bufs' = [bufs EXCEPT ![frames[c].img] =
                       [@ EXCEPT !.Pix = RawPix(fill, 1),
                                 !.writers = @ \cup {frames[c].call}]]
        /\ frames' = [frames EXCEPT ![c].pc = "returned", ![c].ok = success,
                                     ![c].uaf = Destroyed(frames[c].h)]
        /\ UNCHANGED <<cli, conv, fit, lifeVars, ncalls>>

\* resvg_is_image_empty / resvg_get_image_size
ForeignQuery ==
    \E c \in Callers :
        /\ EngineUses(c)
        /\ frames[c].op \in QueryStepOps
        /\ frames' = [frames EXCEPT ![c].pc = "returned",
                                     ![c].uaf = Destroyed(frames[c].h)]
        /\ UNCHANGED <<cli, conv, fit, lifeVars, bufs, ncalls>>

\* resvg_parse_tree_from_data / _from_file and the rest of ParseFromData /
\* ParseFromFile: on RESVG_OK the tree is wrapped, given its finalizer and
\* handed to the caller.
ForeignParse ==
    \E c \in Callers, out \in StepOutcomes :
        /\ EngineUses(c)
        /\ frames[c].op \in ParseStepOps
        /\ out.code = RESVG_OK => Len(engine) < MaxHandles
        /\ LET r == parseTail(World, out)
           IN  /\ trees' = r.w.trees
               /\ finalizers' = r.w.finalizers
               /\ engine' = r.w.engine
               /\ held' = IF r.tree # 0 THEN held \cup {TreeObj(r.tree)} ELSE held
               /\ frames' = [frames EXCEPT ![c].pc = "returned", ![c].ok = (r.tree # 0),
                                            ![c].uaf = Destroyed(frames[c].h)]
        /\ UNCHANGED <<cli, conv, fit, opts, calls, ret, bufs, ncalls>>

\* The engine was handed a destroyed handle and the process dies.
ForeignCrash ==
    \E c \in Callers :
        /\ EngineUses(c)
        /\ Destroyed(frames[c].h)
        /\ frames' = [frames EXCEPT ![c].pc = "crashed", ![c].uaf = TRUE]
        /\ UNCHANGED <<cli, conv, fit, lifeVars, bufs, ncalls>>

\* convertFromPremultiplied(img)
AlphaPass ==
    \E c \in Callers :
        /\ frames[c].pc = "returned"
        /\ frames[c].op \in RenderStepOps
        /\ frames[c].ok
        /\ bufs' = [bufs EXCEPT ![frames[c].img] =
                       [@ EXCEPT !.Pix = convertFromPremultiplied(
                                             [NewRGBA(1, 1) EXCEPT
                                                 !.Pix = bufs[frames[c].img].Pix]).Pix,
                                 !.converters = @ \cup {frames[c].call},
                                 !.passes = @ + 1]]
        /\ frames' = [frames EXCEPT ![c].pc = "converted"]
        /\ UNCHANGED <<cli, conv, fit, lifeVars, ncalls>>

\* The call returns; a render hands its image to its caller.
Return ==
    \E c \in Callers :
        /\ \/ frames[c].pc = "converted"
           \/ frames[c].pc = "returned" /\ ~(frames[c].op \in RenderStepOps /\ frames[c].ok)
        /\ frames' = [frames EXCEPT ![c] =
                         [FrameIdle EXCEPT !.op = frames[c].op, !.call = frames[c].call,
                                           !.uaf = frames[c].uaf,
                                           !.result = IF frames[c].pc = "converted"
                                                      THEN frames[c].img ELSE 0]]
        /\ UNCHANGED <<cli, conv, fit, lifeVars, bufs, ncalls>>

\* The garbage collector runs the finalizer of an object nothing refers to.
Collect ==
    \E obj \in finalizers :
        /\ ~Reachable(obj)
        /\ LET w0 == [World EXCEPT !.finalizers = @ \ {obj}]
               w1 == IF obj[1] = "Options"
                     THEN optionsDestroy(w0, obj[2])
                     ELSE treeDestroy(w0, obj[2])
           IN  Commit(w1, [RetNone EXCEPT !.op = "finalizer", !.obj = obj])
        /\ UNCHANGED held

NextPar ==
    \/ NewOptions
    \/ Drop
    \/ Enter
    \/ AllocImage
    \/ ReadArgs
    \/ ForeignRender
    \/ ForeignQuery
    \/ ForeignParse
    \/ ForeignCrash
    \/ AlphaPass
    \/ Return
    \/ Collect

SpecPar == Init /\ [][NextPar]_vars

(***************************************************************************)
(* SpecCli: one run of svg2png, over command lines of one to six           *)
(* arguments and every outcome of reading, rendering, creating, encoding.  *)
(***************************************************************************)
CliChars == {"0", "1", "x"}

Uint32MaxText == <<"4", "2", "9", "4", "9", "6", "7", "2", "9", "5">>

Uint32OverText == <<"4", "2", "9", "4", "9", "6", "7", "2", "9", "6">>

\* The width and height arguments tried.
CliNumbers ==
    UNION {[1..n -> CliChars] : n \in 0..MaxArgLen} \cup {Uint32MaxText, Uint32OverText}

InputNames == {<<"a">>, <<"d", ".", "d", "/", "a", ".", "s", "v", "g">>}

\* os.Args: the program name, then up to five arguments.
CliArgv ==
    {<<<<"svg2png">>>>}
    \cup {<<<<"svg2png">>, i>> : i \in InputNames}
    \cup {<<<<"svg2png">>, i, <<"o">>>> : i \in InputNames}
    \cup {<<<<"svg2png">>, i, <<"o">>, a>> : i \in InputNames, a \in CliNumbers}
    \cup {<<<<"svg2png">>, i, <<"o">>, a, b>> : i \in InputNames, a \in CliNumbers, b \in CliNumbers}
    \cup {<<<<"svg2png">>, <<"a">>, <<"o">>, a, b, <<"x">>>> : a \in CliNumbers, b \in CliNumbers}

\* What the engine makes of the input file: not an SVG, an SVG without
\* content, or an SVG with content of natural size 0.5 x 1 or 1 x 1.
CliOutcomes ==
    {out \in ParseOutcomes :
        \/ out.code = RESVG_ERROR_PARSING_FAILED
        \/ out.code = RESVG_OK /\ out.empty
        \/ out.code = RESVG_OK /\ ~out.empty /\ out.nw \in {1, 2} /\ out.nh = 2}

CliEnvs ==
    [readOk : BOOLEAN, dataLen : DataLens, out : CliOutcomes, fill : Fills,
     createOk : BOOLEAN, encodeOk : BOOLEAN]

InitCli ==
    /\ cli \in {[CliIdle EXCEPT !.args = a] : a \in CliArgv}
    /\ conv = ConvIdle
    /\ fit = FitIdle
    /\ LifeInit
    /\ StepInit

Main ==
    /\ ~cli.done
    /\ \E env \in CliEnvs :
         cli' = [cli EXCEPT !.done = TRUE, !.env = env, !.res = main(World, cli.args, env)]
    /\ UNCHANGED <<conv, fit, lifeVars, stepVars>>

SpecCli == InitCli /\ [][Main]_vars

(***************************************************************************)
(* Properties                                                              *)
(***************************************************************************)
ConvPixels == 0..(conv.raw.w * conv.raw.h - 1)

Channels == 1..3

\* n/d rounded to the nearest integer (halves up), for n >= 0, d > 0
RoundDiv(n, d) == (2 * n + d) \div (2 * d)

\* C1: after the alpha pass, every pixel whose alpha byte is 0 or 255 has
\* the R, G and B bytes it had before the pass.
C1_BoundaryAlphaKeepsRGB ==
    conv.done =>
        \A n \in ConvPixels :
            conv.raw.Pix[4 * n + 4] \in {0, MaxByte} =>
                \A k \in Channels : conv.out.Pix[4 * n + k] = conv.raw.Pix[4 * n + k]

C1_Witness ==
    /\ conv.done
    /\ conv.raw.Pix[4] = 0
    /\ conv.raw.Pix[1] = 200
    /\ conv.out.Pix[1] = 200

\* C2 as stated: for 0 < alpha < 255 every channel after the pass is
\* round(c * 255 / alpha), rounded to nearest, clamped to [0,255].
C2_RoundedQuotient ==
    conv.done =>
        \A n \in ConvPixels : \A k \in Channels :
            LET a == conv.raw.Pix[4 * n + 4]
                c == conv.raw.Pix[4 * n + k]
            IN  (0 < a /\ a < MaxByte) =>
                    conv.out.Pix[4 * n + k] = Min(MaxByte, RoundDiv(c * 255, a))

\* C2 amended: for 0 < alpha < 255 every channel after the pass is the
\* quotient c * 255 / alpha rounded down (the largest u with
\* u * alpha <= c * 255), clamped to [0,255].
C2_TruncatedQuotient ==
    conv.done =>
        \A n \in ConvPixels : \A k \in Channels :
            LET a == conv.raw.Pix[4 * n + 4]
                c == conv.raw.Pix[4 * n + k]
                u == conv.out.Pix[4 * n + k]
            IN  (0 < a /\ a < MaxByte) =>
                    /\ u \in Bytes
                    /\ u * a <= c * 255
                    /\ u < MaxByte => c * 255 < (u + 1) * a

C2_Witness ==
    /\ conv.done
    /\ conv.raw.Pix[4] = 2
    /\ conv.raw.Pix[1] = 1
    /\ conv.out.Pix[1] = 127

\* C3: for 0 < alpha < 255 and a premultiplied channel c <= alpha, the
\* value u the pass produces lies in [0,255], and re-premultiplying it,
\* round(u * alpha / 255), is within 1 of c.
C3_RoundTripTolerance ==
    conv.done =>
        \A n \in ConvPixels : \A k \in Channels :
            LET a == conv.raw.Pix[4 * n + 4]
                c == conv.raw.Pix[4 * n + k]
                u == conv.out.Pix[4 * n + k]
            IN  (0 < a /\ a < MaxByte /\ c <= a) =>
                    /\ u \in Bytes
                    /\ RoundDiv(u * a, 255) - c \in {-1, 0, 1}

C3_Witness ==
    /\ conv.done
    /\ conv.raw.Pix[4] = 200
    /\ conv.raw.Pix[1] = 100
    /\ conv.out.Pix[1] = 127
    /\ RoundDiv(conv.out.Pix[1] * 200, 255) = 100

\* The inputs of the transform synthesis as float64 values.
FitW0 == F32FromHalves(fit.nw)

FitH0 == F32FromHalves(fit.nh)

FitW == F64FromInt(fit.width)

FitH == F64FromInt(fit.height)

\* W/w0 < H/h0 and W/w0 > H/h0, decided in integers
FitWidthTighter == fit.width * fit.nh < fit.height * fit.nw

FitHeightTighter == fit.width * fit.nh > fit.height * fit.nw

\* |x - y| <= t * 2^k, decided exactly
FWithin(x, y, t, k) == FCmp(FAbs(FAddExact(x, FNeg(y))), FScale(t, k)) <= 0

\* C4: the transform of RenderScaledToSize is {A=scale, B=0, C=0, D=scale,
\* E=tx, F=ty} with scale the smaller of W/w0 and H/h0, tx = (W - w0*scale)/2
\* and ty = (H - h0*scale)/2; natural size 50x50 with target 200x100 gives
\* scale 2, tx 50, ty 0.
C4_FitTransform ==
    fit.done =>
        LET t     == fit.out.transform
            scale == IF fit.width * fit.nh <= fit.height * fit.nw
                     THEN F64Div(FitW, FitW0)
                     ELSE F64Div(FitH, FitH0)
        IN  /\ t.A = ToFloat32(scale)
            /\ t.D = ToFloat32(scale)
            /\ t.B = FZero
            /\ t.C = FZero
            /\ t.E = ToFloat32(F64Half(F64Sub(FitW, F64Mul(FitW0, scale))))
            /\ t.F = ToFloat32(F64Half(F64Sub(FitH, F64Mul(FitH0, scale))))
            /\ (fit.nw = 100 /\ fit.nh = 100 /\ fit.width = 200 /\ fit.height = 100) =>
                   /\ FIsInt(t.A, 2)
                   /\ FIsInt(t.E, 50)
                   /\ FIsInt(t.F, 0)

C4_Witness ==
    /\ fit.done
    /\ fit.nw = 100 /\ fit.nh = 100 /\ fit.width = 200 /\ fit.height = 100
    /\ FIsInt(fit.out.transform.A, 2)
    /\ FIsInt(fit.out.transform.E, 50)

\* C5 as stated: when W/w0 # H/h0, exactly one of scaledW, scaledH equals
\* its target dimension; the other is strictly smaller than its target and
\* its offset is strictly positive and half the remaining space, while the
\* offset on the exact axis is 0.
C5_ExactFit ==
    (fit.done /\ (FitWidthTighter \/ FitHeightTighter)) =>
        LET o == fit.out
            exactW == o.scaledW = FitW
            exactH == o.scaledH = FitH
        IN  /\ exactW # exactH
            /\ exactW => /\ FCmp(o.scaledH, FitH) < 0
                         /\ o.ty.s > 0
                         /\ o.ty = F64Half(F64Sub(FitH, o.scaledH))
                         /\ o.tx = FZero
            /\ exactH => /\ FCmp(o.scaledW, FitW) < 0
                         /\ o.tx.s > 0
                         /\ o.tx = F64Half(F64Sub(FitW, o.scaledW))
                         /\ o.ty = FZero

\* C5 amended: when W/w0 # H/h0, the scaled dimension of the tighter axis
\* equals its target up to the rounding of the float64 division and
\* multiplication (within 2^-52 of the target, relatively) and its offset is
\* at most 2^-53 of the target in magnitude, not necessarily 0; the other
\* scaled dimension is strictly smaller than its target and its offset is
\* strictly positive and half the remaining space, up to the same rounding.
C5_FitWithinRounding ==
    (fit.done /\ (FitWidthTighter \/ FitHeightTighter)) =>
        LET o == fit.out
        IN  /\ FitWidthTighter =>
                 /\ FWithin(o.scaledW, FitW, FitW, -52)
                 /\ FWithin(o.tx, FZero, FitW, -53)
                 /\ FCmp(o.scaledH, FitH) < 0
                 /\ o.ty.s > 0
                 /\ FWithin(FAddExact(FScale(o.ty, 1), o.scaledH), FitH, FitH, -52)
            /\ FitHeightTighter =>
                 /\ FWithin(o.scaledH, FitH, FitH, -52)
                 /\ FWithin(o.ty, FZero, FitH, -53)
                 /\ FCmp(o.scaledW, FitW) < 0
                 /\ o.tx.s > 0
                 /\ FWithin(FAddExact(FScale(o.tx, 1), o.scaledW), FitW, FitW, -52)

\* Natural width 5.5 against target width 15: the scaled width is not 15 and
\* the horizontal offset is not 0.
C5_Witness ==
    /\ fit.done
    /\ fit.nw = 11 /\ fit.width = 15
    /\ FitWidthTighter
    /\ fit.out.scaledW # FitW
    /\ fit.out.tx # FZero
    /\ fit.out.transform.E # FZero

Handles == 1..Len(engine)

CallNames == {calls[i].fn : i \in 1..Len(calls)}

\* C6: ParseFromData on zero-length data returns a nil tree and the
\* empty-input error, and its trace is empty: no foreign call, no finalizer.
C6_EmptyDataFailsLocally ==
    (ret.op = "ParseFromData" /\ ret.dataLen = 0) =>
        /\ ret.tree = 0
        /\ ret.err = EmptyDataError
        /\ calls = <<>>

C6_Witness ==
    /\ ret.op = "ParseFromData"
    /\ ret.dataLen = 0
    /\ ret.err = EmptyDataError
    /\ Len(engine) = 1

\* C7: the result code of the engine is mapped to nil for OK, to its own
\* sentinel for each of the six known codes, and to an unknown-engine error
\* that keeps the code for any other; ParseFromData, ParseFromFile and
\* LoadFontFile return exactly that error, and a parse returns a tree iff
\* the error is nil.
C7_ErrorMapping ==
    LET mapped == \/ ret.op \in {"ParseFromFile", "LoadFontFile"}
                  \/ ret.op = "ParseFromData" /\ ret.dataLen > 0
        known  == {ErrNotUTF8, ErrFileOpenFailed, ErrMalformedGzip,
                   ErrElementsLimit, ErrInvalidSize, ErrParsingFailed}
    IN  /\ Cardinality(known \cup {NilError}) = 7
        /\ mapped =>
             /\ ret.code = RESVG_OK => ret.err = NilError
             /\ ret.code = RESVG_ERROR_NOT_AN_UTF8_STR => ret.err = ErrNotUTF8
             /\ ret.code = RESVG_ERROR_FILE_OPEN_FAILED => ret.err = ErrFileOpenFailed
             /\ ret.code = RESVG_ERROR_MALFORMED_GZIP => ret.err = ErrMalformedGzip
             /\ ret.code = RESVG_ERROR_ELEMENTS_LIMIT_REACHED => ret.err = ErrElementsLimit
             /\ ret.code = RESVG_ERROR_INVALID_SIZE => ret.err = ErrInvalidSize
             /\ ret.code = RESVG_ERROR_PARSING_FAILED => ret.err = ErrParsingFailed
             /\ ret.code \notin 0..6 =>
                    /\ ret.err \notin known \cup {NilError}
                    /\ ret.err.kind = "unknown resvg error"
                    /\ ret.err.code = ret.code
        /\ ret.op \in {"ParseFromData", "ParseFromFile"} =>
             (ret.tree # 0 <=> ret.err = NilError)

C7_Witness ==
    /\ ret.op = "ParseFromData"
    /\ ret.code = MaxResultCode
    /\ ret.err = UnknownError(MaxResultCode)
    /\ ret.tree = 0

\* The step is a destroy call, explicit or by finalizer, on an object whose
\* handle field is already nil.
RepeatedDestroy ==
    /\ ret'.op \in {"Options.destroy", "RenderTree.destroy", "finalizer"}
    /\ \/ /\ ret'.obj[1] = "Options"
          /\ opts[ret'.obj[2]].cOpts = NilHandle
       \/ /\ ret'.obj[1] = "RenderTree"
          /\ trees[ret'.obj[2]].cTree = NilHandle

\* C8: whatever destroy calls are made on an Options or a RenderTree,
\* explicitly or by finalizer, the foreign destroy function is invoked at
\* most once on its handle, and a destroy call on an already released
\* object changes nothing on either side and reports no error.
C8_ReleaseIdempotent ==
    [][/\ \A h \in 1..Len(engine') : engine'[h].destroys <= 1
       /\ RepeatedDestroy =>
            /\ engine' = engine
            /\ opts' = opts
            /\ trees' = trees
            /\ ret'.err = NilError
            /\ ~ret'.panic]_vars

\* An explicit destroy was followed by the finalizer of the same object.
C8_Witness ==
    /\ ret.op = "finalizer"
    /\ ret.obj[1] = "Options"
    /\ calls = <<>>
    /\ opts[ret.obj[2]].cOpts = NilHandle
    /\ engine[opts[ret.obj[2]].orig].destroys = 1
    /\ ~engine[opts[ret.obj[2]].orig].scoped

\* C9: every handle acquired inside Render, RenderWithSize or
\* RenderScaledToSize has been released exactly once when the function is
\* left, on whichever path, and stays released exactly once through the
\* finalizers that run later.
C9_ScopedReleasedOnce ==
    /\ \A h \in Handles : engine[h].scoped => engine[h].destroys = 1
    /\ ret.op \in {"Render", "RenderWithSize", "RenderScaledToSize"} =>
         /\ \E h \in Handles : engine[h].scoped /\ engine[h].kind = "options"
         /\ \A o \in 1..Len(opts) : engine[opts[o].orig].scoped => opts[o].cOpts = NilHandle
         /\ \A t \in 1..Len(trees) : trees[t].orig # NilHandle /\ engine[trees[t].orig].scoped
                                        => trees[t].cTree = NilHandle

\* The finalizer of the tree of a convenience call has run after the call.
C9_Witness ==
    /\ ret.op = "finalizer"
    /\ ret.obj[1] = "RenderTree"
    /\ engine[trees[ret.obj[2]].orig].scoped
    /\ engine[trees[ret.obj[2]].orig].destroys = 1
    /\ calls = <<>>

\* C10: when the engine reports that no element carries the identifier,
\* RenderNode returns the node-not-found error and a nil image, and the
\* alpha pass has not run; when it reports success, RenderNode returns a
\* non-nil image and a nil error.
C10_RenderNodeResult ==
    (ret.op = "RenderTree.RenderNode" /\ "resvg_render_node" \in CallNames) =>
        /\ ~ret.success =>
             /\ ret.err = RenderNodeError
             /\ ret.img.nil
             /\ "convertFromPremultiplied" \notin CallNames
        /\ ret.success =>
             /\ ret.err = NilError
             /\ ~ret.img.nil
             /\ ret.img.w = ret.width /\ ret.img.h = ret.height

C10_Witness ==
    /\ ret.op = "RenderTree.RenderNode"
    /\ "resvg_render_node" \in CallNames
    /\ ~ret.success
    /\ ret.img.nil
    /\ ret.err = RenderNodeError

RenderOps == {"RenderTree.Render", "RenderTree.RenderNode",
              "Render", "RenderWithSize", "RenderScaledToSize"}

\* Positions in the trace of the last operation of the calls named in fns.
CallsOf(fns) == {i \in 1..Len(calls) : calls[i].fn \in fns}

RawRenderCalls == CallsOf({"resvg_render", "resvg_render_node"})

AlphaPasses == CallsOf({"convertFromPremultiplied"})

\* C11: every image returned by RenderTree.Render, RenderTree.RenderNode,
\* Render, RenderWithSize or RenderScaledToSize went through the alpha pass
\* exactly once, after the one raw render call that wrote it: its bytes are
\* the alpha pass applied once to what the engine wrote.
C11_ConvertedExactlyOnce ==
    (ret.op \in RenderOps /\ ~ret.img.nil) =>
        /\ Cardinality(RawRenderCalls) = 1
        /\ Cardinality(AlphaPasses) = 1
        /\ \A j \in RawRenderCalls : \A i \in AlphaPasses :
             /\ j < i
             /\ ret.img.Pix =
                  convertFromPremultiplied([ret.img EXCEPT !.Pix = calls[j].wrote]).Pix

\* The engine wrote the premultiplied pixel (100, 50, 0, 128); the caller
\* of Render received (199, 99, 0, 128), which a second pass would change.
C11_Witness ==
    /\ ret.op = "Render"
    /\ ~ret.img.nil
    /\ ret.img.Pix = <<199, 99, 0, 128>>
    /\ convertFromPremultiplied(ret.img).Pix # ret.img.Pix

\* The last operation was a convenience call that got past its checks: the
\* data was not empty, the engine parsed it into a document with content
\* and, where natural says so, of positive natural width and height.
PassedChecks(op, natural) ==
    /\ ret.op = op
    /\ ret.dataLen > 0
    /\ ret.out.code = RESVG_OK
    /\ ~ret.out.empty
    /\ natural => (ret.out.nw > 0 /\ ret.out.nh > 0)

\* The image returned is w x h with a buffer of w*h*4 bytes.
ImageIs(w, h) ==
    /\ ~ret.panic
    /\ ~ret.img.nil
    /\ ret.img.w = w /\ ret.img.h = h
    /\ Len(ret.img.Pix) = w * h * 4

SizedRenderDimensions ==
    /\ ret.op = "RenderTree.Render" /\ ret.width > 0 /\ ret.height > 0
          => ImageIs(ret.width, ret.height)
    /\ PassedChecks("RenderWithSize", FALSE) /\ ret.width > 0 /\ ret.height > 0
          => ImageIs(ret.width, ret.height)
    /\ PassedChecks("RenderScaledToSize", TRUE) /\ ret.width > 0 /\ ret.height > 0
          => ImageIs(ret.width, ret.height)

ZeroSizedRequest ==
    /\ ret.width = 0 \/ ret.height = 0
    /\ \/ ret.op \in {"RenderTree.Render", "RenderTree.RenderNode"}
       \/ PassedChecks("RenderWithSize", FALSE)
       \/ PassedChecks("RenderScaledToSize", TRUE)

\* C13 as stated: a render request of zero width or height is reported to
\* the caller as the invalid-size error, without a crash and without a raw
\* render call on an empty buffer.
C13_ZeroSizeReported ==
    ZeroSizedRequest =>
        /\ ~ret.panic
        /\ ret.err = ErrInvalidSize
        /\ ret.img.nil
        /\ RawRenderCalls = {}

\* RenderWithSize with width 0 on a document with content: the call panics
\* before the raw render call, after releasing its tree and options.
C13_Witness ==
    /\ PassedChecks("RenderWithSize", FALSE)
    /\ ret.width = 0 /\ ret.height = 1
    /\ ret.panic
    /\ ret.err = NilError
    /\ RawRenderCalls = {}

\* The foreign setter behind each string setter.
SetterOf(op) ==
    IF op = "Options.SetResourcesDir"
    THEN "resvg_options_set_resources_dir"
    ELSE "resvg_options_set_stylesheet"

\* C14: SetResourcesDir and SetStylesheet with the empty string make one
\* call of the foreign setter, with a nil pointer and no C string allocated;
\* with a non-empty string they allocate one C copy of the text (its bytes
\* and a terminating NUL), call the setter once with a pointer to that copy
\* and free the copy afterwards.  Neither fails.
C14_StringSetters ==
    ret.op \in {"Options.SetResourcesDir", "Options.SetStylesheet"} =>
        /\ ~ret.panic
        /\ ret.err = NilError
        /\ Cardinality(CallsOf({SetterOf(ret.op)})) = 1
        /\ \A i \in 1..Len(calls) : calls[i].fn \in {"C.CString", "C.free", SetterOf(ret.op)}
        /\ IF ret.text = <<>>
           THEN /\ Len(calls) = 1
                /\ calls[1].arg = NilPointer
                /\ calls[1].h = opts[ret.obj[2]].cOpts
           ELSE /\ Len(calls) = 3
                /\ calls[1].fn = "C.CString"
                /\ calls[1].buf = ret.text \o <<0>>
                /\ calls[2].fn = SetterOf(ret.op)
                /\ calls[2].h = opts[ret.obj[2]].cOpts
                /\ calls[2].arg = PointerTo(calls[1].buf)
                /\ calls[3].fn = "C.free"
                /\ calls[3].buf = calls[1].buf

\* SetStylesheet("") on a live Options: one setter call, nil pointer.
C14_Witness ==
    /\ ret.op = "Options.SetStylesheet"
    /\ ret.text = <<>>
    /\ Len(calls) = 1
    /\ calls[1].fn = "resvg_options_set_stylesheet"
    /\ calls[1].arg.null
    /\ calls[1].h # NilHandle

ConvenienceOps == {"Render", "RenderWithSize", "RenderScaledToSize"}

\* The parse inside the last convenience call succeeded.
ParsedOk == ret.dataLen > 0 /\ ret.out.code = RESVG_OK

\* C16: Render, RenderWithSize and RenderScaledToSize make a raw render call
\* only after a successful parse of a document with content, and Render and
\* RenderScaledToSize only if the natural width and height are positive; a
\* failed parse returns its error, a document without content the
\* no-renderable-elements error, a natural size <= 0 the invalid-dimensions
\* error of the function, each with a nil image.
C16_ValidationOrder ==
    ret.op \in ConvenienceOps =>
        /\ RawRenderCalls # {} =>
             /\ ParsedOk
             /\ ~ret.out.empty
             /\ ret.op # "RenderWithSize" => (ret.out.nw > 0 /\ ret.out.nh > 0)
        /\ ~ParsedOk =>
             /\ ret.err # NilError
             /\ ret.img.nil
             /\ CallsOf({"resvg_is_image_empty", "resvg_get_image_size"}) = {}
        /\ ParsedOk /\ ret.out.empty =>
             /\ ret.err = NoElementsError
             /\ ret.img.nil
             /\ CallsOf({"resvg_get_image_size"}) = {}
        /\ ParsedOk /\ ~ret.out.empty /\ (ret.out.nw <= 0 \/ ret.out.nh <= 0) =>
             /\ ret.op = "Render" =>
                  ret.err = InvalidDimensionsError /\ ret.img.nil
             /\ ret.op = "RenderScaledToSize" =>
                  ret.err = InvalidNaturalDimensionsError /\ ret.img.nil

\* RenderScaledToSize on a document with content and natural width 0: the
\* size was queried, and the call stopped before the raw render call.
C16_Witness ==
    /\ ret.op = "RenderScaledToSize"
    /\ ParsedOk /\ ~ret.out.empty /\ ret.out.nw = 0
    /\ ret.width > 0 /\ ret.height > 0
    /\ ret.err = InvalidNaturalDimensionsError
    /\ ret.img.nil
    /\ RawRenderCalls = {}
    /\ CallsOf({"resvg_get_image_size"}) # {}

\* The natural size Render read from the engine in the last operation.
NaturalSize == SizeOfHalves(ret.out.nw, ret.out.nh)

\* C18 as stated: whenever the natural width and height pass Render's > 0
\* check, the width and height Render passes to RenderTree.Render, the
\* natural size converted to uint32, are both at least 1, and the render
\* goes through.
C18_NaturalCanvasPositive ==
    PassedChecks("Render", TRUE) =>
        /\ ToUint32(NaturalSize.Width) >= 1
        /\ ToUint32(NaturalSize.Height) >= 1
        /\ ~ret.panic

\* Render on a document with content of natural size 0.5 x 1: the size
\* passes the check, the canvas is 0 x 1, and the call panics.
C18_Witness ==
    /\ PassedChecks("Render", TRUE)
    /\ ret.out.nw = 1 /\ ret.out.nh = 2
    /\ ToUint32(NaturalSize.Width) = 0
    /\ ret.panic
    /\ ret.img.nil
    /\ RawRenderCalls = {}

\* Every buffer was written and converted by the call that allocated it and
\* by no other, converted at most once; the buffer a call works on, and the
\* buffer a caller was handed, is one its own call allocated; no two
\* callers work on, or were handed, the same buffer.
BufferDiscipline ==
    /\ \A b \in 1..Len(bufs) :
         /\ bufs[b].writers \subseteq {bufs[b].allocBy}
         /\ bufs[b].converters \subseteq {bufs[b].allocBy}
         /\ bufs[b].passes <= 1
    /\ \A c \in Callers :
         /\ frames[c].img # 0 => bufs[frames[c].img].allocBy = frames[c].call
         /\ frames[c].result # 0 =>
              /\ bufs[frames[c].result].allocBy = frames[c].call
              /\ bufs[frames[c].result].passes = 1
    /\ \A c1, c2 \in Callers :
         c1 # c2 =>
            /\ frames[c1].img # 0 => frames[c1].img # frames[c2].img
            /\ frames[c1].result # 0 => frames[c1].result # frames[c2].result
            /\ frames[c1].img # 0 => frames[c1].img # frames[c2].result

\* The step is a step of a RenderTree.Render or RenderTree.RenderNode call.
RenderStep ==
    \E c \in Callers : frames'[c] # frames[c] /\ frames'[c].op \in RenderStepOps

\* C15: in every interleaving of RenderTree.Render and RenderNode calls of
\* several callers on the same tree, each call writes and converts only the
\* buffer it allocated, each caller is handed the buffer of its own call,
\* and no step of a render changes a field of a RenderTree or an Options.
C15_NoSharedBuffer ==
    [][/\ BufferDiscipline'
       /\ RenderStep => (trees' = trees /\ opts' = opts)]_vars

\* Two callers are inside RenderTree.Render on the same tree at once, the
\* engine has written both buffers, and one has been converted.
C15_Witness ==
    /\ frames[1].op = "RenderTree.Render" /\ frames[2].op = "RenderTree.Render"
    /\ frames[1].obj = frames[2].obj
    /\ frames[1].pc = "converted" /\ frames[2].pc = "returned"
    /\ frames[1].img # frames[2].img
    /\ bufs[frames[1].img].Pix = <<199, 99, 0, 128>>
    /\ bufs[frames[2].img].Pix = <<100, 50, 0, 128>>

\* C17 as stated: no foreign call is in progress on a handle that has been
\* destroyed, and the engine never worked on a destroyed handle.
C17_NoUseAfterRelease ==
    \A c \in Callers :
        /\ EngineUses(c) => ~Destroyed(frames[c].h)
        /\ ~frames[c].uaf

\* RenderTree.Render read t.cTree, the caller let go of the tree, the
\* finalizer destroyed the handle, and the engine rendered from it.
C17_Witness ==
    \E c \in Callers :
        /\ frames[c].op = "RenderTree.Render"
        /\ frames[c].pc = "returned"
        /\ frames[c].uaf
        /\ trees[frames[c].obj[2]].cTree = NilHandle
        /\ engine[frames[c].h].destroys = 1

\* s is the decimal text of an unsigned 32-bit integer: digits only, at
\* least one, and after the leading zeros fewer than ten digits, or ten
\* digits not above 4294967295 in dictionary order.
IsUint32Text(s) ==
    /\ s # <<>>
    /\ \A i \in 1..Len(s) : IsDigit(s[i])
    /\ LET zeros == {i \in 1..Len(s) : \A j \in 1..i : s[j] = "0"}
           sig   == SubSeq(s, Cardinality(zeros) + 1, Len(s))
       IN  \/ Len(sig) < 10
           \/ /\ Len(sig) = 10
              /\ \A i \in 1..10 :
                   (\A j \in 1..(i - 1) : sig[j] = Uint32MaxText[j])
                       => DigitVal(sig[i]) <= DigitVal(Uint32MaxText[i])

WidthGiven == Len(cli.args) > 3

HeightGiven == Len(cli.args) > 4

\* A width without a height, or a width or height that is not a uint32.
BadSizeArguments ==
    /\ WidthGiven
    /\ \/ ~HeightGiven
       \/ ~IsUint32Text(cli.args[4])
       \/ ~IsUint32Text(cli.args[5])

\* The argument handling of svg2png: bad size arguments end the run with
\* exit code 1 and a message before the input file is read or anything is
\* rendered; otherwise the file is read, and rendered by RenderWithSize
\* when width and height are given and by Render when neither is.
CliArgumentHandling ==
    (cli.done /\ Len(cli.args) >= 2) =>
        /\ BadSizeArguments =>
             /\ cli.res.exit = 1
             /\ cli.res.msg # ""
             /\ ~cli.res.read
             /\ cli.res.rendered = "none"
        /\ ~BadSizeArguments =>
             /\ cli.res.read
             /\ cli.env.readOk =>
                  cli.res.rendered = IF WidthGiven THEN "RenderWithSize" ELSE "Render"
             /\ ~cli.env.readOk => cli.res.rendered = "none"

\* A failure to read, create or encode, and an error returned by the
\* render, end the run with exit code 1 and a message.
CliReportedFailures ==
    (cli.done /\ Len(cli.args) >= 2 /\ ~BadSizeArguments) =>
        /\ ~cli.env.readOk => (cli.res.exit = 1 /\ cli.res.msg # "")
        /\ cli.res.rendered # "none" /\ cli.res.err # NilError =>
             (cli.res.exit = 1 /\ cli.res.msg # "")
        /\ cli.res.rendered # "none" /\ cli.res.err = NilError /\ ~cli.res.panic
              /\ (~cli.env.createOk \/ ~cli.env.encodeOk) =>
             (cli.res.exit = 1 /\ cli.res.msg # "")

\* C19 as stated: width and height are accepted only together and only as
\* unsigned 32-bit integers, bad size arguments exit with code 1 before the
\* file is read or rendered, both given means RenderWithSize and neither
\* means Render, and every read, render, create or encode failure exits
\* with code 1: the run ends with exit code 0 when all went well and with
\* exit code 1 otherwise.
C19_ArgumentValidation ==
    /\ CliArgumentHandling
    /\ CliReportedFailures
    /\ cli.done =>
         /\ cli.res.exit \in {0, 1}
         /\ cli.res.panic => cli.res.exit = 1
         /\ cli.res.exit = 0 => (cli.res.encoded /\ ~cli.res.img.nil)

\* svg2png in out 0 1 on an SVG with content: both arguments parse,
\* RenderWithSize panics, and the run ends with exit code 2.
C19_Witness ==
    /\ cli.done
    /\ Len(cli.args) = 5
    /\ cli.args[4] = <<"0">> /\ cli.args[5] = <<"1">>
    /\ cli.res.rendered = "RenderWithSize"
    /\ cli.res.panic
    /\ cli.res.exit = 2

====
